---- MODULE Spec2Model ----
(***************************************************************************)
(* Plugin micro-kernel (Kernel, EventBus, ScopedEventBus) of @oxog/utils.  *)
(*                                                                         *)
(* Execution is single threaded: a step of the model is the code that runs *)
(* in one turn (an API call up to its first await, or one async function   *)
(* resumed after an await up to its next one).  initPlugin and             *)
(* destroyPlugin are async functions of their own: each resumes in its own *)
(* turn, and the function awaiting it (doInit, register's .catch,          *)
(* unregister, destroy) resumes in a later one; application calls may run  *)
(* in between.  A hook (onInit, onDestroy) is invoked inside a step and    *)
(* settles in a later one.                                                 *)
(***************************************************************************)
EXTENDS Integers, Sequences, FiniteSets, TLC

\* ------------------------------------------------------------------ bounds
\* Calls the application issues in one behaviour (register, init, unregister,
\* destroy, on, off, emit, a call on a scoped bus, a rewrite of
\* plugin.dependencies).
MaxOps == 4
\* Longest dependencies array of a plugin definition.
MaxDeps == 1

\* Calls the application issues in one behaviour of the three-plugin chain.
MaxChainOps == 6

\* Calls the application issues in one behaviour on an EventBus of its own.
MaxBusOps == 4

\* Calls the application issues in one behaviour on a debounced function.
MaxDebounceOps == 4

Names == {"A", "B"}
\* The plugins of a dependency chain: A, B depending on A, C depending on B.
ChainNames == {"A", "B", "C"}
\* Events handlers subscribe to: a custom event and the kernel's last event.
Events == {"x", "kernel:destroyed"}
\* Event names an application hands to a bus of its own: those, and the
\* empty string.
EventNames == Events \cup {""}
\* The handler the application registers with kernel.on; the handler of the
\* plugin held by entry e is e itself.
UserHandler == 0

\* ----------------------------------------------------------- small helpers
Range(s) == {s[i] : i \in DOMAIN s}

Reverse(s) == [i \in 1..Len(s) |-> s[Len(s) + 1 - i]]

Remove(s, x) == SelectSeq(s, LAMBDA y : y # x)

\* Sequences over S without repetition, of length at most n.
RECURSIVE ListsUpTo(_, _)
ListsUpTo(S, n) ==
  IF n = 0 THEN {<<>>}
  ELSE LET shorter == ListsUpTo(S, n - 1)
       IN shorter \cup {Append(l, x) : l \in {m \in shorter : Len(m) = n - 1},
                                       x \in S}

DepLists == {l \in ListsUpTo(Names, MaxDeps) : Cardinality(Range(l)) = Len(l)}

\* Plugin definitions handed to register: name, dependencies array, whether
\* install throws, whether the onInit / onDestroy / onError hooks are present,
\* and where the plugin subscribes its handler to "x" through its scoped bus:
\* in install, or in onInit once its asynchronous work is done.
PluginDefs ==
  {d \in [name : Names, deps : DepLists, installThrows : BOOLEAN,
          hooks : BOOLEAN, sub : {"install", "init"}] :
     d.sub = "init" => d.hooks}

VARIABLES
  state,        \* Kernel.state
  plugins,      \* Kernel.plugins: the keys' insertion order, as entry ids
  ent,          \* every PluginEntry ever stored, by id (with hook counters)
  initPromise,  \* Kernel.initPromise: 0 (null) or the id of a doInit promise
  promises,     \* settlement of each doInit promise, by id
  pass,         \* the doInit activation in flight, or NoPass
  waiters,      \* init() calls suspended on a doInit promise
  lates,        \* the initPlugin calls started by register() and not finished
  tasks,        \* unregister() and destroy() calls suspended on an await
  listeners,    \* EventBus.listeners: event -> handlers in insertion order
  scoped,       \* EventBus.scopedHandlers: scope -> {<<event, handler>>}
  ops,          \* API calls issued so far
  torn,         \* entries whose teardown has completed (history)
  lastPass,     \* summary of the doInit activation that ended last (history)
  ev,           \* what the last step did (history)
  debounce      \* the closure of one debounce(fn, wait, options) call and
                \* the host timers it has armed

vars == <<state, plugins, ent, initPromise, promises, pass, waiters, lates,
          tasks, listeners, scoped, ops, torn, lastPass, ev, debounce>>

NoPass == [id |-> 0]
NoLastPass == [id |-> 0]

\* ------------------------------------------------------------- the registry
NameOf(W, e) == W.ent[e].name

\* plugins.get(name): the entry stored under the name, 0 when absent.
Get(W, name) ==
  IF \E i \in DOMAIN W.plugins : W.ent[W.plugins[i]].name = name
  THEN W.plugins[CHOOSE i \in DOMAIN W.plugins : W.ent[W.plugins[i]].name = name]
  ELSE 0

Has(W, name) == Get(W, name) # 0

\* plugins.delete(name)
Delete(W, name) ==
  [W EXCEPT !.plugins = SelectSeq(@, LAMBDA e : W.ent[e].name # name)]

RegisteredNames(W) == {W.ent[W.plugins[i]].name : i \in DOMAIN W.plugins}

\* The mutable program state a step works on, with what the step has emitted,
\* which handlers and hooks it has invoked, and the kind of await it stops at.
Cur ==
  [state |-> state, plugins |-> plugins, ent |-> ent, listeners |-> listeners,
   scoped |-> scoped, emits |-> <<>>, handled |-> <<>>, hooks |-> <<>>,
   await |-> "none"]

\* ---------------------------------------------------------------- EventBus
Handlers(W, event) == IF event \in EventNames THEN W.listeners[event] ELSE <<>>

\* EventBus.on: listeners.get(event) is a Set, a second add changes nothing.
On(W, event, h) ==
  IF h \in Range(W.listeners[event]) THEN W
  ELSE [W EXCEPT !.listeners[event] = Append(@, h)]

\* EventBus.off
Off(W, event, h) == [W EXCEPT !.listeners[event] = Remove(@, h)]

\* EventBus.emit: every handler of the event, in insertion order; a handler
\* that throws is caught, so nothing else changes.
Emit(W, event, name) ==
  [W EXCEPT !.emits = Append(@, <<event, name>>),
            !.handled = @ \o Handlers(W, event)]

\* The handlers of one emission, called in the order of the Set from index
\* i on: each call sits in its own try / catch, so a handler that throws is
\* logged and the loop goes on. R carries the handlers called, the handlers
\* whose error was logged and whether an error left emit.
RECURSIVE EmitFromNoCatch(_, _, _, _)
EmitFromNoCatch(hs, i, throwing, R) ==
  IF i > Len(hs) THEN R
  ELSE LET called == [R EXCEPT !.handled = Append(@, hs[i])]
       IN IF hs[i] \in throwing
          THEN [called EXCEPT !.threw = TRUE]
          ELSE EmitFromNoCatch(hs, i + 1, throwing, called)

RECURSIVE EmitFrom(_, _, _, _)
EmitFrom(hs, i, throwing, R) ==
  IF i > Len(hs) THEN R
  ELSE LET called == [R EXCEPT !.handled = Append(@, hs[i])]
       IN IF hs[i] \in throwing
          THEN EmitFrom(hs, i + 1, throwing,
                        [called EXCEPT !.logged = Append(@, hs[i])])
          ELSE EmitFrom(hs, i + 1, throwing, called)

\* EventBus.emit(event) where the handlers in `throwing` throw.
EmitCall(W, event, throwing) ==
  LET R == EmitFrom(Handlers(W, event), 1, throwing,
                    [handled |-> <<>>, logged |-> <<>>, threw |-> FALSE])
  IN [w |-> [W EXCEPT !.emits = Append(@, <<event, "">>),
                      !.handled = @ \o R.handled],
      res |-> IF R.threw THEN "threw" ELSE "returned",
      logged |-> R.logged]

\* EventBus.removeAllListeners() with no argument.
RemoveAllListeners(W) ==
  [W EXCEPT !.listeners = [e \in EventNames |-> <<>>]]

\* EventBus.removeAllListeners(event?): `if (event)` selects the one-event
\* branch, so an absent argument and a falsy one both clear every event.
RemoveAllListenersOf(W, arg) ==
  IF arg.given /\ arg.event # ""
  THEN [W EXCEPT !.listeners[arg.event] = <<>>]
  ELSE RemoveAllListeners(W)

\* EventBus.onScoped
OnScoped(W, scope, event, h) ==
  [On(W, event, h) EXCEPT !.scoped[scope] = @ \cup {<<event, h>>}]

\* EventBus.removeScope: off() for every tracked pair, then the scope is
\* dropped.
RemoveScope(W, scope) ==
  [W EXCEPT !.listeners =
              [e \in EventNames |->
                 SelectSeq(W.listeners[e],
                           LAMBDA h : <<e, h>> \notin W.scoped[scope])],
            !.scoped[scope] = {}]

\* EventBus.hasScope
HasScope(W, scope) == W.scoped[scope] # {}

\* ScopedEventBus.on / off / destroy of the bus bound to `scope`; off goes
\* to EventBus.off and leaves what the scope tracks as it is.
ScopedOn(W, scope, event, h) == OnScoped(W, scope, event, h)

ScopedOff(W, scope, event, h) == Off(W, event, h)

ScopedDestroy(W, scope) == RemoveScope(W, scope)

\* ---------------------------------------------------------- topologicalSort
\* visit(name, path) of the depth-first search; T carries result, visited,
\* visiting and whether CircularDependencyError has been thrown.
RECURSIVE Visit(_, _, _)
RECURSIVE VisitDeps(_, _, _, _)

\* visit that pushes the entry before it has visited its dependencies.
VisitPushFirst(W, name, T) ==
  IF T.thrown \/ name \in T.visited THEN T
  ELSE IF name \in T.visiting THEN [T EXCEPT !.thrown = TRUE]
  ELSE LET e == Get(W, name)
       IN IF e = 0 THEN T
          ELSE LET T1 == [T EXCEPT !.visiting = @ \cup {name},
                                   !.result = Append(@, e)]
                   T2 == VisitDeps(W, W.ent[e].deps, 1, T1)
               IN IF T2.thrown THEN T2
                  ELSE [T2 EXCEPT !.visiting = @ \ {name},
                                  !.visited = @ \cup {name}]

Visit(W, name, T) ==
  IF T.thrown \/ name \in T.visited THEN T
  ELSE IF name \in T.visiting THEN [T EXCEPT !.thrown = TRUE]
  ELSE LET e == Get(W, name)
       IN IF e = 0 THEN T
          ELSE LET T1 == [T EXCEPT !.visiting = @ \cup {name}]
                   T2 == VisitDeps(W, W.ent[e].deps, 1, T1)
               IN IF T2.thrown THEN T2
                  ELSE [T2 EXCEPT !.visiting = @ \ {name},
                                  !.visited = @ \cup {name},
                                  !.result = Append(@, e)]

VisitDeps(W, deps, i, T) ==
  IF i > Len(deps) \/ T.thrown THEN T
  ELSE VisitDeps(W, deps, i + 1, Visit(W, deps[i], T))

RECURSIVE VisitKeys(_, _, _)
VisitKeys(W, i, T) ==
  IF i > Len(W.plugins) \/ T.thrown THEN T
  ELSE VisitKeys(W, i + 1, Visit(W, NameOf(W, W.plugins[i]), T))

\* Kernel.topologicalSort: [thrown, result], result the entries in order.
TopologicalSort(W) ==
  VisitKeys(W, 1, [result |-> <<>>, visited |-> {}, visiting |-> {},
                   thrown |-> FALSE])

\* ------------------------------------------------------------ plugin hooks
\* Plugin.install of definition d, stored as entry e: it may subscribe the
\* plugin's handler through kernel.getScopedEventBus(name).
Install(W, e, d) ==
  IF d.sub = "install" THEN ScopedOn(W, d.name, "x", e) ELSE W

\* What a fulfilled onInit of entry e has done: it may have subscribed the
\* plugin's handler through the scoped bus.
OnInitBody(W, e) ==
  IF W.ent[e].sub = "init" THEN ScopedOn(W, W.ent[e].name, "x", e) ELSE W

\* ------------------------------------------------- initPlugin, destroyPlugin
\* Kernel.initPlugin past its try: the entry becomes active.
InitPluginDone(W, e) ==
  Emit([W EXCEPT !.ent[e].state = "active"], "plugin:initialized", NameOf(W, e))

\* initPlugin without its early return for an entry that is not `registered`.
InitPluginStartNoGuard(W, e) ==
  LET W1 == Emit([W EXCEPT !.ent[e].state = "initializing"],
                 "plugin:initializing", NameOf(W, e))
  IN IF W.ent[e].hooks
     THEN [W1 EXCEPT !.ent[e].inits = @ + 1,
                     !.hooks = Append(@, <<"onInit", e>>),
                     !.await = "hook"]
     ELSE [InitPluginDone(W1, e) EXCEPT !.await = "resolved"]

\* Kernel.initPlugin up to its await: an entry that is not `registered` is
\* skipped; a plugin without onInit becomes active at once.
InitPluginStart(W, e) ==
  IF W.ent[e].state # "registered" THEN [W EXCEPT !.await = "resolved"]
  ELSE LET W1 == Emit([W EXCEPT !.ent[e].state = "initializing"],
                      "plugin:initializing", NameOf(W, e))
       IN IF W.ent[e].hooks
          THEN [W1 EXCEPT !.ent[e].inits = @ + 1,
                          !.hooks = Append(@, <<"onInit", e>>),
                          !.await = "hook"]
          ELSE [InitPluginDone(W1, e) EXCEPT !.await = "resolved"]

\* Kernel.initPlugin's catch: the plugin's onError is told, the error rethrown.
InitPluginFail(W, e) == [W EXCEPT !.hooks = Append(@, <<"onError", e>>)]

\* Kernel.initPlugin resumed after its await, in a turn of its own: past the
\* try when the hook fulfilled, in the catch when it rejected. The promise
\* of initPlugin is then resolved, or rejected with the error rethrown.
InitPluginResume(W, e, settled) ==
  IF settled = "fulfilled"
  THEN [InitPluginDone(W, e) EXCEPT !.await = "resolved"]
  ELSE [InitPluginFail(W, e) EXCEPT !.await = "threw"]

\* Kernel.destroyPlugin after its await.
DestroyPluginDone(W, e) == [W EXCEPT !.ent[e].state = "destroyed"]

\* Kernel.destroyPlugin resumed after its await, in a turn of its own: the
\* entry becomes `destroyed` when onDestroy fulfilled; a rejection leaves
\* destroyPlugin at once. The caller of destroyPlugin resumes a turn later.
DestroyPluginResume(W, e, ok) ==
  IF ok THEN [DestroyPluginDone(W, e) EXCEPT !.await = "resolved"]
  ELSE [W EXCEPT !.await = "threw"]

\* Kernel.destroyPlugin up to its await.
DestroyPluginStart(W, e) ==
  IF W.ent[e].state = "destroyed" THEN [W EXCEPT !.await = "resolved"]
  ELSE LET W1 == ScopedDestroy(W, NameOf(W, e))
       IN IF W.ent[e].hooks
          THEN [W1 EXCEPT !.ent[e].dests = @ + 1,
                          !.hooks = Append(@, <<"onDestroy", e>>),
                          !.await = "hook"]
          ELSE [DestroyPluginDone(W1, e) EXCEPT !.await = "resolved"]

\* -------------------------------------------------------------------- doInit
\* A doInit activation P: the sorted entries, the loop index, the
\* initializedStack, and during rollback the reversed stack and its index.
\* activated and rolled record, in order, which entries this activation made
\* active and whose onDestroy its rollback invoked.
NewPass(id, sorted) ==
  [id |-> id, sorted |-> sorted, idx |-> 1, stack |-> <<>>, phase |-> "init",
   await |-> "none", failed |-> 0, rb |-> <<>>, ridx |-> 0,
   activated |-> <<>>, rolled |-> <<>>, status |-> "running"]

\* The for loop of doInit at index P.idx: the next initPlugin, or the end.
DoInitLoop(W, P) ==
  IF P.idx > Len(P.sorted)
  THEN [w |-> Emit([W EXCEPT !.state = "initialized"], "kernel:initialized", ""),
        p |-> [P EXCEPT !.status = "fulfilled", !.await = "none"]]
  ELSE LET e == P.sorted[P.idx]
           W1 == InitPluginStart(W, e)
       IN [w |-> W1,
           p |-> [P EXCEPT !.await = W1.await,
                           !.activated =
                              IF W1.ent[e].state = "active"
                                 /\ W.ent[e].state # "active"
                              THEN Append(@, e) ELSE @]]

\* The rollback loop of doInit at index P.ridx: the next destroyPlugin, or
\* the end, where the kernel returns to idle and the promise rejects.
DoInitRollback(W, P) ==
  IF P.ridx > Len(P.rb)
  THEN [w |-> [W EXCEPT !.state = "idle"],
        p |-> [P EXCEPT !.status = "rejected", !.await = "none"]]
  ELSE LET e == P.rb[P.ridx]
           W1 == DestroyPluginStart(W, e)
       IN [w |-> W1,
           p |-> [P EXCEPT !.await = W1.await,
                           !.rolled = IF W1.await = "hook" THEN Append(@, e)
                                      ELSE @]]

\* initializedStack.push(entry) after an initPlugin that did not throw.
PushInitialized(P) == [P EXCEPT !.stack = Append(@, P.sorted[P.idx])]

\* doInit resumed after `await this.initPlugin(entry)` or, in the rollback,
\* after `await this.destroyPlugin(initialized)`; P.await tells whether the
\* awaited promise resolved or threw. A destroyPlugin that threw is logged.
DoInitResume(W, P) ==
  IF P.phase = "init"
  THEN LET e == P.sorted[P.idx]
       IN IF P.await = "resolved"
          THEN DoInitLoop(W, [PushInitialized(P) EXCEPT !.idx = @ + 1])
          ELSE DoInitRollback([W EXCEPT !.ent[e].state = "error"],
                              [P EXCEPT !.phase = "rollback", !.failed = e,
                                        !.rb = Reverse(P.stack), !.ridx = 1])
  ELSE DoInitRollback(W, [P EXCEPT !.ridx = @ + 1])

\* ----------------------------------------------------------- API call bodies
\* register that never starts initPlugin, whatever the kernel state.
RegisterCallNoLateInit(W, d) ==
  IF Has(W, d.name)
  THEN [w |-> W, res |-> "threw", err |-> "PluginAlreadyRegisteredError", e |-> 0]
  ELSE IF \E i \in DOMAIN d.deps : ~Has(W, d.deps[i])
  THEN [w |-> W, res |-> "threw", err |-> "PluginDependencyMissingError", e |-> 0]
  ELSE LET e == Len(W.ent) + 1
           entry == [name |-> d.name, deps |-> d.deps, hooks |-> d.hooks,
                     sub |-> d.sub, state |-> "registered",
                     inits |-> 0, dests |-> 0]
           W1 == [W EXCEPT !.ent = Append(@, entry), !.plugins = Append(@, e)]
           W2 == Install(W1, e, d)
       IN IF d.installThrows
          THEN [w |-> [ScopedDestroy(Delete(W2, d.name), d.name)
                         EXCEPT !.ent = W.ent],
                res |-> "threw", err |-> "InstallError", e |-> 0]
          ELSE [w |-> Emit(W2, "plugin:registered", d.name),
                res |-> "returned", err |-> "", e |-> e]

\* Kernel.register(d): the outcome, the entry stored (0 when it threw) and
\* the state left behind.
RegisterCall(W, d) ==
  IF Has(W, d.name)
  THEN [w |-> W, res |-> "threw", err |-> "PluginAlreadyRegisteredError", e |-> 0]
  ELSE IF \E i \in DOMAIN d.deps : ~Has(W, d.deps[i])
  THEN [w |-> W, res |-> "threw", err |-> "PluginDependencyMissingError", e |-> 0]
  ELSE LET e == Len(W.ent) + 1
           entry == [name |-> d.name, deps |-> d.deps, hooks |-> d.hooks,
                     sub |-> d.sub, state |-> "registered",
                     inits |-> 0, dests |-> 0]
           W1 == [W EXCEPT !.ent = Append(@, entry), !.plugins = Append(@, e)]
           W2 == Install(W1, e, d)
       IN IF d.installThrows
          THEN [w |-> [ScopedDestroy(Delete(W2, d.name), d.name)
                         EXCEPT !.ent = W.ent],
                res |-> "threw", err |-> "InstallError", e |-> 0]
          ELSE LET W3 == Emit(W2, "plugin:registered", d.name)
               IN [w |-> IF W3.state = "initialized"
                         THEN InitPluginStart(W3, e) ELSE W3,
                   res |-> "returned", err |-> "", e |-> e]

\* A catch of register's initPlugin promise that only emits plugin:error.
LateInitCatchKeepsState(W, e) == Emit(W, "plugin:error", NameOf(W, e))

\* The catch attached to the initPlugin promise in register.
LateInitCatch(W, e) ==
  Emit([W EXCEPT !.ent[e].state = "error"], "plugin:error", NameOf(W, e))

\* unregister without the check for plugins that depend on the name.
UnregisterCallNoDependentsCheck(W, name) ==
  LET e == Get(W, name)
  IN IF e = 0
     THEN [w |-> W, res |-> "rejected", err |-> "PluginNotFoundError", e |-> 0]
     ELSE [w |-> DestroyPluginStart(W, e), res |-> "pending", err |-> "", e |-> e]

\* Kernel.unregister(name) up to its await.
UnregisterCall(W, name) ==
  LET e == Get(W, name)
  IN IF e = 0
     THEN [w |-> W, res |-> "rejected", err |-> "PluginNotFoundError", e |-> 0]
     ELSE IF \E i \in DOMAIN W.plugins :
               /\ NameOf(W, W.plugins[i]) # name
               /\ name \in Range(W.ent[W.plugins[i]].deps)
     THEN [w |-> W, res |-> "rejected", err |-> "DependencyConflict", e |-> 0]
     ELSE [w |-> DestroyPluginStart(W, e), res |-> "pending", err |-> "", e |-> e]

\* Kernel.unregister after its await: the name is deleted, the event emitted.
UnregisterFinish(W, name) == Emit(Delete(W, name), "plugin:unregistered", name)

\* The end of Kernel.destroy: registry cleared, listeners removed, state set,
\* kernel:destroyed emitted.
DestroyFinish(W) ==
  Emit([RemoveAllListeners([W EXCEPT !.plugins = <<>>])
          EXCEPT !.state = "destroyed"],
       "kernel:destroyed", "")

\* A teardown order that is not reversed.
DestroyOrderForward(W) == TopologicalSort(W).result

\* The order Kernel.destroy tears plugins down in:
\* topologicalSort().reverse().
DestroyOrder(W) == Reverse(TopologicalSort(W).result)

\* The for loop of Kernel.destroy at index i of the reversed order.
DestroyLoop(W, seq, i) ==
  IF i > Len(seq) THEN DestroyFinish(W) ELSE DestroyPluginStart(W, seq[i])

\* ----------------------------------------------------------------- debounce
\* The closure of debounce(fn, wait, {leading, trailing}) as it is returned:
\* timeoutId, lastArgs and result undefined (0). fn returns its argument.
\* timers holds the callbacks setTimeout has armed, each with its id and the
\* shouldCallLeading it captured; nextId is the id setTimeout returns next;
\* calls lists the arguments fn has been applied to.
Debounce(leading, trailing) ==
  [leading |-> leading, trailing |-> trailing, timeoutId |-> 0, lastArgs |-> 0,
   result |-> 0, timers |-> {}, nextId |-> 1, calls |-> <<>>]

\* clearTimeout(id)
ClearTimeout(D, id) == [D EXCEPT !.timers = {t \in @ : t.id # id}]

\* invoke()
Invoke(D) ==
  IF D.lastArgs # 0
  THEN [D EXCEPT !.result = D.lastArgs, !.calls = Append(@, D.lastArgs),
                 !.lastArgs = 0]
  ELSE D

\* debounced(arg)
Debounced(D, arg) ==
  LET shouldCallLeading == D.leading /\ D.timeoutId = 0
      D1 == [D EXCEPT !.lastArgs = arg]
      D2 == IF D1.timeoutId # 0 THEN ClearTimeout(D1, D1.timeoutId) ELSE D1
      D3 == IF shouldCallLeading THEN Invoke(D2) ELSE D2
  IN [D3 EXCEPT !.timeoutId = D3.nextId,
                !.timers = @ \cup {[id |-> D3.nextId,
                                    shouldCallLeading |-> shouldCallLeading]},
                !.nextId = @ + 1]

\* The callback handed to setTimeout, run when timer t fires.
TimerCallback(D, t) ==
  LET D1 == IF D.trailing /\ ~t.shouldCallLeading THEN Invoke(D) ELSE D
  IN [D1 EXCEPT !.timeoutId = 0, !.timers = @ \ {t}]

\* debounced.cancel()
Cancel(D) ==
  [ClearTimeout(D, D.timeoutId) EXCEPT !.timeoutId = 0, !.lastArgs = 0]

\* debounced.flush(): the timer is cleared and invoke() run; timeoutId keeps
\* its value.
Flush(D) ==
  IF D.timeoutId # 0 THEN Invoke(ClearTimeout(D, D.timeoutId)) ELSE D

\* debounced.pending()
IsPending(D) == D.timeoutId # 0

\* ------------------------------------------------------------------ history
Ev(op, res, err, name, e, W, cyc, madeIn) ==
  [op |-> op, res |-> res, err |-> err, name |-> name, e |-> e,
   emits |-> W.emits, handled |-> W.handled, hooks |-> W.hooks,
   cyc |-> cyc, madeIn |-> madeIn]

\* Whether the declared dependencies of the registered plugins hold a cycle.
DependsOn(W) ==
  {<<a, b>> \in RegisteredNames(W) \X RegisteredNames(W) :
     b \in Range(W.ent[Get(W, a)].deps)}

RECURSIVE Closure(_, _)
Closure(R, n) ==
  IF n = 0 THEN R
  ELSE LET C == Closure(R, n - 1)
       IN C \cup {<<pq[1][1], pq[2][2]>> :
                    pq \in {x \in C \X R : x[1][2] = x[2][1]}}

Reach(W) == Closure(DependsOn(W), Cardinality(Names))

Cyclic(W) == \E n \in Names : <<n, n>> \in Reach(W)

Commit(W) ==
  /\ state' = W.state
  /\ plugins' = W.plugins
  /\ ent' = W.ent
  /\ listeners' = W.listeners
  /\ scoped' = W.scoped

\* A doInit activation has stopped at an await or ended.
CommitPass(P, proms) ==
  IF P.status = "running"
  THEN /\ pass' = P
       /\ promises' = proms
       /\ UNCHANGED lastPass
  ELSE /\ pass' = NoPass
       /\ promises' =
            [proms EXCEPT ![P.id] =
               IF P.status = "fulfilled"
               THEN [status |-> "fulfilled", err |-> "", name |-> ""]
               ELSE [status |-> "rejected", err |-> "PluginInitializationError",
                     name |-> ent[P.failed].name]]
       /\ lastPass' = [id |-> P.id, status |-> P.status, failed |-> P.failed,
                       sorted |-> P.sorted, activated |-> P.activated,
                       rolled |-> P.rolled]

Pending == [status |-> "pending", err |-> "", name |-> ""]

\* ------------------------------------------------------------------ actions
InitKernel ==
  /\ state = "idle"
  /\ plugins = <<>>
  /\ ent = <<>>
  /\ initPromise = 0
  /\ promises = <<>>
  /\ pass = NoPass
  /\ waiters = {}
  /\ lates = {}
  /\ tasks = {}
  /\ listeners = [e \in EventNames |-> <<>>]
  /\ scoped = [n \in Names \cup ChainNames |-> {}]
  /\ ops = 0
  /\ torn = {}
  /\ lastPass = NoLastPass
  /\ ev = Ev("new", "", "", "", 0, Cur, FALSE, "")

\* A new kernel, beside a debounced function made with the default options.
Init == InitKernel /\ debounce = Debounce(FALSE, TRUE)

\* The effect of kernel.register(d).
RegisterDo(d) ==
  /\ ops' = ops + 1
  /\ LET R == RegisterCall(Cur, d)
     IN /\ Commit(R.w)
        /\ lates' = IF R.w.await = "hook"
                    THEN lates \cup {[e |-> R.e, await |-> "hook"]}
                    ELSE lates
        /\ ev' = Ev("register", R.res, R.err, d.name, R.e, R.w, FALSE, state)
  /\ UNCHANGED <<debounce, initPromise, promises, pass, waiters, tasks, torn, lastPass>>

\* kernel.register(d)
Register(d) == ops < MaxOps /\ RegisterDo(d)

\* The onInit that the initPlugin started by register awaits settles; a
\* fulfilled hook has run its body.
LateInitSettle(l, ok) ==
  /\ l \in lates
  /\ l.await = "hook"
  /\ lates' = (lates \ {l}) \cup
                {[l EXCEPT !.await = IF ok THEN "fulfilled" ELSE "rejected"]}
  /\ LET W == IF ok THEN OnInitBody(Cur, l.e) ELSE Cur
     IN /\ Commit(W)
        /\ ev' = Ev("lateOnInit", IF ok THEN "fulfilled" ELSE "rejected", "",
                    ent[l.e].name, l.e, W, FALSE, "")
  /\ UNCHANGED <<debounce, initPromise, promises, pass, waiters, tasks, ops, torn, lastPass>>

\* The initPlugin started by register resumes after its await.
LateInitResume(l) ==
  /\ l \in lates
  /\ l.await \in {"fulfilled", "rejected"}
  /\ LET W == InitPluginResume(Cur, l.e, l.await)
     IN /\ Commit(W)
        /\ lates' = IF W.await = "resolved" THEN lates \ {l}
                    ELSE (lates \ {l}) \cup {[l EXCEPT !.await = "threw"]}
        /\ ev' = Ev("lateInit", IF W.await = "resolved" THEN "fulfilled" ELSE "threw",
                    "", ent[l.e].name, l.e, W, FALSE, "")
  /\ UNCHANGED <<debounce, initPromise, promises, pass, waiters, tasks, ops, torn, lastPass>>

\* The callback register attached with .catch to the initPlugin promise runs.
LateInitCatchStep(l) ==
  /\ l \in lates
  /\ l.await = "threw"
  /\ lates' = lates \ {l}
  /\ LET W == LateInitCatch(Cur, l.e)
     IN /\ Commit(W)
        /\ ev' = Ev("lateCatch", "rejected", "", ent[l.e].name, l.e, W, FALSE, "")
  /\ UNCHANGED <<debounce, initPromise, promises, pass, waiters, tasks, ops, torn, lastPass>>

\* The effect of kernel.init() up to its await.
InitCallDo ==
  /\ ops' = ops + 1
  /\ UNCHANGED <<debounce, lates, tasks, torn>>
  /\ LET cyc == Cyclic(Cur)
     IN CASE state = "initialized" ->
               /\ ev' = Ev("init", "resolved", "", "", 0, Cur, cyc, state)
               /\ UNCHANGED <<state, plugins, ent, listeners, scoped, initPromise,
                              promises, pass, waiters, lastPass>>
          [] state = "initializing" /\ initPromise = 0 ->
               /\ ev' = Ev("init", "resolved", "", "", 0, Cur, cyc, state)
               /\ UNCHANGED <<state, plugins, ent, listeners, scoped, initPromise,
                              promises, pass, waiters, lastPass>>
          [] state = "initializing" /\ initPromise # 0 ->
               /\ waiters' = waiters \cup
                    {[id |-> ops + 1, p |-> initPromise, first |-> FALSE,
                      cyc |-> cyc, madeIn |-> state]}
               /\ ev' = Ev("init", "pending", "", "", 0, Cur, cyc, state)
               /\ UNCHANGED <<state, plugins, ent, listeners, scoped, initPromise,
                              promises, pass, lastPass>>
          [] state = "destroyed" ->
               /\ ev' = Ev("init", "rejected", "DestroyedKernelError", "", 0,
                           Cur, cyc, state)
               /\ UNCHANGED <<state, plugins, ent, listeners, scoped, initPromise,
                              promises, pass, waiters, lastPass>>
          [] state = "idle" ->
               LET id == Len(promises) + 1
                   W1 == [Cur EXCEPT !.state = "initializing"]
                   T == TopologicalSort(W1)
                   proms == Append(promises, Pending)
               IN /\ initPromise' = id
                  /\ waiters' = waiters \cup
                       {[id |-> ops + 1, p |-> id, first |-> TRUE,
                         cyc |-> cyc, madeIn |-> state]}
                  /\ IF T.thrown
                     THEN /\ Commit(W1)
                          /\ promises' =
                               Append(promises,
                                      [status |-> "rejected",
                                       err |-> "CircularDependencyError",
                                       name |-> ""])
                          /\ ev' = Ev("init", "pending", "", "", 0, W1, cyc, state)
                          /\ UNCHANGED <<pass, lastPass>>
                     ELSE LET R == DoInitLoop(W1, NewPass(id, T.result))
                          IN /\ Commit(R.w)
                             /\ CommitPass(R.p, proms)
                             /\ ev' = Ev("init", "pending", "", "", 0, R.w, cyc,
                                         state)

\* kernel.init()
InitCall == ops < MaxOps /\ InitCallDo

\* The onInit awaited by the initPlugin of the doInit activation settles; a
\* fulfilled hook has run its body.
OnInitSettle(ok) ==
  /\ pass # NoPass
  /\ pass.phase = "init"
  /\ pass.await = "hook"
  /\ LET e == pass.sorted[pass.idx]
         W == IF ok THEN OnInitBody(Cur, e) ELSE Cur
     IN /\ Commit(W)
        /\ pass' = [pass EXCEPT !.await = IF ok THEN "fulfilled" ELSE "rejected"]
        /\ ev' = Ev("onInit", IF ok THEN "fulfilled" ELSE "rejected", "",
                    ent[e].name, e, W, FALSE, "")
  /\ UNCHANGED <<debounce, initPromise, promises, waiters, lates, tasks, ops, torn, lastPass>>

\* The initPlugin of the doInit activation resumes after its await.
InitPluginStep ==
  /\ pass # NoPass
  /\ pass.phase = "init"
  /\ pass.await \in {"fulfilled", "rejected"}
  /\ LET e == pass.sorted[pass.idx]
         W == InitPluginResume(Cur, e, pass.await)
     IN /\ Commit(W)
        /\ pass' = [pass EXCEPT !.await = W.await,
                                !.activated = IF W.await = "resolved"
                                              THEN Append(@, e) ELSE @]
        /\ ev' = Ev("initPlugin", W.await, "", ent[e].name, e, W, FALSE, "")
  /\ UNCHANGED <<debounce, initPromise, promises, waiters, lates, tasks, ops, torn, lastPass>>

\* The destroyPlugin of the rollback resumes after its await; ok tells how
\* onDestroy settled.
RollbackDestroyPluginStep(ok) ==
  /\ pass # NoPass
  /\ pass.phase = "rollback"
  /\ pass.await = "hook"
  /\ LET e == pass.rb[pass.ridx]
         W == DestroyPluginResume(Cur, e, ok)
     IN /\ Commit(W)
        /\ pass' = [pass EXCEPT !.await = W.await]
        /\ ev' = Ev("rollbackDestroyPlugin", W.await, "", ent[e].name, e, W,
                    FALSE, "")
  /\ UNCHANGED <<debounce, initPromise, promises, waiters, lates, tasks, ops, torn, lastPass>>

\* doInit resumes after its await of initPlugin or destroyPlugin.
DoInitStep ==
  /\ pass # NoPass
  /\ pass.await \in {"resolved", "threw"}
  /\ LET R == DoInitResume(Cur, pass)
     IN /\ Commit(R.w)
        /\ CommitPass(R.p, promises)
        /\ torn' = IF pass.phase = "rollback" THEN torn \cup {pass.rb[pass.ridx]}
                   ELSE torn
        /\ ev' = Ev("doInit", R.p.status, "", "", 0, R.w, FALSE, "")
  /\ UNCHANGED <<debounce, initPromise, waiters, lates, tasks, ops>>

\* An init() call suspended on a doInit promise resumes once it is settled;
\* the call that started the activation clears initPromise in its finally.
InitSettle(w) ==
  /\ w \in waiters
  /\ promises[w.p].status # "pending"
  /\ waiters' = waiters \ {w}
  /\ initPromise' = IF w.first THEN 0 ELSE initPromise
  /\ ev' = Ev("initSettled",
              IF promises[w.p].status = "fulfilled" THEN "resolved" ELSE "rejected",
              promises[w.p].err, promises[w.p].name, 0, Cur, w.cyc, w.madeIn)
  /\ UNCHANGED <<debounce, state, plugins, ent, promises, pass, lates, tasks, listeners,
                 scoped, ops, torn, lastPass>>

\* The effect of kernel.unregister(name) up to its await.
UnregisterDo(name) ==
  /\ ops' = ops + 1
  /\ LET R == UnregisterCall(Cur, name)
     IN /\ Commit(R.w)
        /\ tasks' = IF R.res = "pending"
                    THEN tasks \cup {[id |-> ops + 1, kind |-> "unregister",
                                      name |-> name, e |-> R.e, seq |-> <<>>,
                                      idx |-> 0, await |-> R.w.await]}
                    ELSE tasks
        /\ ev' = Ev("unregister", R.res, R.err, name, R.e, R.w, FALSE, "")
  /\ UNCHANGED <<debounce, initPromise, promises, pass, waiters, lates, torn, lastPass>>

\* kernel.unregister(name)
Unregister(name) == ops < MaxOps /\ UnregisterDo(name)

\* The destroyPlugin awaited by an unregister() or destroy() call resumes
\* after its await; ok tells how onDestroy settled.
DestroyPluginStep(t, ok) ==
  /\ t \in tasks
  /\ t.await = "hook"
  /\ LET W == DestroyPluginResume(Cur, t.e, ok)
     IN /\ Commit(W)
        /\ tasks' = (tasks \ {t}) \cup {[t EXCEPT !.await = W.await]}
        /\ ev' = Ev("destroyPlugin", W.await, "", ent[t.e].name, t.e, W, FALSE, "")
  /\ UNCHANGED <<debounce, initPromise, promises, pass, waiters, lates, ops, torn, lastPass>>

\* unregister resumes after `await this.destroyPlugin(entry)`: it deletes
\* the name and emits, or rejects with what destroyPlugin threw.
UnregisterStep(t) ==
  /\ t \in tasks
  /\ t.kind = "unregister"
  /\ t.await \in {"resolved", "threw"}
  /\ tasks' = tasks \ {t}
  /\ IF t.await = "resolved"
     THEN LET W == UnregisterFinish(Cur, t.name)
          IN /\ Commit(W)
             /\ torn' = torn \cup {t.e}
             /\ ev' = Ev("unregisterSettled", "resolved", "", t.name, t.e, W,
                         FALSE, "")
     ELSE /\ ev' = Ev("unregisterSettled", "rejected", "HookError", t.name, t.e,
                      Cur, FALSE, "")
          /\ UNCHANGED <<state, plugins, ent, listeners, scoped, torn>>
  /\ UNCHANGED <<debounce, initPromise, promises, pass, waiters, lates, ops, lastPass>>

\* kernel.destroy()
Destroy ==
  /\ ops < MaxOps
  /\ ops' = ops + 1
  /\ UNCHANGED <<debounce, initPromise, promises, pass, waiters, lates, lastPass>>
  /\ IF state = "destroyed"
     THEN /\ ev' = Ev("destroy", "resolved", "", "", 0, Cur, FALSE, state)
          /\ UNCHANGED <<state, plugins, ent, listeners, scoped, tasks, torn>>
     ELSE LET T == TopologicalSort(Cur)
              seq == DestroyOrder(Cur)
              W == DestroyLoop(Cur, seq, 1)
          IN IF T.thrown
             THEN /\ ev' = Ev("destroy", "rejected", "CircularDependencyError",
                              "", 0, Cur, FALSE, state)
                  /\ UNCHANGED <<state, plugins, ent, listeners, scoped, tasks,
                                 torn>>
             ELSE /\ Commit(W)
                  /\ tasks' = IF seq = <<>> THEN tasks
                              ELSE tasks \cup
                                     {[id |-> ops + 1, kind |-> "destroy",
                                       name |-> "", e |-> seq[1], seq |-> seq,
                                       idx |-> 1, await |-> W.await]}
                  /\ torn' = torn
                  /\ ev' = Ev("destroy", IF seq = <<>> THEN "resolved" ELSE "pending",
                              "", "", 0, W, FALSE, state)

\* destroy resumes after `await this.destroyPlugin(entry)`; a destroyPlugin
\* that threw is logged. The loop goes on or the kernel is destroyed.
DestroyStep(t) ==
  /\ t \in tasks
  /\ t.kind = "destroy"
  /\ t.await \in {"resolved", "threw"}
  /\ LET W == DestroyLoop(Cur, t.seq, t.idx + 1)
         last == t.idx + 1 > Len(t.seq)
     IN /\ Commit(W)
        /\ tasks' = IF last THEN tasks \ {t}
                    ELSE (tasks \ {t}) \cup
                           {[t EXCEPT !.idx = @ + 1, !.e = t.seq[t.idx + 1],
                                      !.await = W.await]}
        /\ torn' = IF last THEN torn \cup Range(t.seq) ELSE torn
        /\ ev' = Ev("destroyStep", IF last THEN "resolved" ELSE "pending", "", "",
                    t.e, W, FALSE, "")
  /\ UNCHANGED <<debounce, initPromise, promises, pass, waiters, lates, ops, lastPass>>

\* The application replaces plugin.dependencies of a registered plugin (the
\* plugin object stays the caller's, as the kernel test suite does).
MutateDepsDo(e, deps) ==
  /\ ops' = ops + 1
  /\ e \in Range(plugins)
  /\ deps # ent[e].deps
  /\ ent' = [ent EXCEPT ![e].deps = deps]
  /\ ev' = Ev("mutate", "", "", ent[e].name, e, Cur, FALSE, "")
  /\ UNCHANGED <<debounce, state, plugins, initPromise, promises, pass, waiters, lates,
                 tasks, listeners, scoped, torn, lastPass>>

MutateDeps(e, deps) == ops < MaxOps /\ MutateDepsDo(e, deps)

\* kernel.on(event, UserHandler)
KernelOn(event) ==
  /\ ops < MaxOps
  /\ ops' = ops + 1
  /\ LET W == On(Cur, event, UserHandler)
     IN /\ Commit(W)
        /\ ev' = Ev("on", "", "", event, 0, W, FALSE, "")
  /\ UNCHANGED <<debounce, initPromise, promises, pass, waiters, lates, tasks, torn,
                 lastPass>>

\* kernel.off(event, UserHandler)
KernelOff(event) ==
  /\ ops < MaxOps
  /\ ops' = ops + 1
  /\ LET W == Off(Cur, event, UserHandler)
     IN /\ Commit(W)
        /\ ev' = Ev("off", "", "", event, 0, W, FALSE, "")
  /\ UNCHANGED <<debounce, initPromise, promises, pass, waiters, lates, tasks, torn,
                 lastPass>>

\* kernel.getScopedEventBus(n).off("x", h), h the handler of the plugin
\* registered as n.
ScopedBusOff(n) ==
  /\ ops < MaxOps
  /\ Has(Cur, n)
  /\ ops' = ops + 1
  /\ LET W == ScopedOff(Cur, n, "x", Get(Cur, n))
     IN /\ Commit(W)
        /\ ev' = Ev("scoped.off", "", "", n, Get(Cur, n), W, FALSE, "")
  /\ UNCHANGED <<debounce, initPromise, promises, pass, waiters, lates, tasks, torn,
                 lastPass>>

\* kernel.getScopedEventBus(n).destroy()
ScopedBusDestroy(n) ==
  /\ ops < MaxOps
  /\ Has(Cur, n)
  /\ ops' = ops + 1
  /\ LET W == ScopedDestroy(Cur, n)
     IN /\ Commit(W)
        /\ ev' = Ev("scoped.destroy", "", "", n, Get(Cur, n), W, FALSE, "")
  /\ UNCHANGED <<debounce, initPromise, promises, pass, waiters, lates, tasks, torn,
                 lastPass>>

\* kernel.emit("x")
EmitX ==
  /\ ops < MaxOps
  /\ ops' = ops + 1
  /\ LET W == Emit(Cur, "x", "")
     IN /\ Commit(W)
        /\ ev' = Ev("emit", "", "", "x", 0, W, FALSE, "")
  /\ UNCHANGED <<debounce, initPromise, promises, pass, waiters, lates, tasks, torn,
                 lastPass>>

\* The steps of the kernel's own API: register, init, unregister, destroy and
\* the continuations of their awaits.
Next ==
  \/ \E d \in PluginDefs : Register(d)
  \/ \E l \in lates, ok \in BOOLEAN : LateInitSettle(l, ok)
  \/ \E l \in lates : LateInitResume(l)
  \/ \E l \in lates : LateInitCatchStep(l)
  \/ InitCall
  \/ \E ok \in BOOLEAN : OnInitSettle(ok)
  \/ InitPluginStep
  \/ \E ok \in BOOLEAN : RollbackDestroyPluginStep(ok)
  \/ DoInitStep
  \/ \E w \in waiters : InitSettle(w)
  \/ \E n \in Names : Unregister(n)
  \/ \E t \in tasks, ok \in BOOLEAN : DestroyPluginStep(t, ok)
  \/ \E t \in tasks : UnregisterStep(t)
  \/ Destroy
  \/ \E t \in tasks : DestroyStep(t)

Spec == Init /\ [][Next]_vars

\* The API together with an application that subscribes and emits.
NextBus ==
  \/ \E d \in PluginDefs : Register(d)
  \/ \E l \in lates, ok \in BOOLEAN : LateInitSettle(l, ok)
  \/ \E l \in lates : LateInitResume(l)
  \/ \E l \in lates : LateInitCatchStep(l)
  \/ InitCall
  \/ \E ok \in BOOLEAN : OnInitSettle(ok)
  \/ InitPluginStep
  \/ \E ok \in BOOLEAN : RollbackDestroyPluginStep(ok)
  \/ DoInitStep
  \/ \E w \in waiters : InitSettle(w)
  \/ \E n \in Names : Unregister(n)
  \/ \E t \in tasks, ok \in BOOLEAN : DestroyPluginStep(t, ok)
  \/ \E t \in tasks : UnregisterStep(t)
  \/ Destroy
  \/ \E t \in tasks : DestroyStep(t)
  \/ \E event \in Events : KernelOn(event)
  \/ \E event \in Events : KernelOff(event)
  \/ \E n \in Names : ScopedBusOff(n)
  \/ \E n \in Names : ScopedBusDestroy(n)
  \/ EmitX

SpecBus == Init /\ [][NextBus]_vars

\* Registration and initialization alone (no teardown call), with an
\* application that rewrites plugin.dependencies.
NextInit ==
  \/ \E d \in PluginDefs : Register(d)
  \/ \E l \in lates, ok \in BOOLEAN : LateInitSettle(l, ok)
  \/ \E l \in lates : LateInitResume(l)
  \/ \E l \in lates : LateInitCatchStep(l)
  \/ InitCall
  \/ \E ok \in BOOLEAN : OnInitSettle(ok)
  \/ InitPluginStep
  \/ \E ok \in BOOLEAN : RollbackDestroyPluginStep(ok)
  \/ DoInitStep
  \/ \E w \in waiters : InitSettle(w)
  \/ \E e \in DOMAIN ent, deps \in DepLists : MutateDeps(e, deps)

SpecInit == Init /\ [][NextInit]_vars

\* Registration and initialization where every hook that was invoked settles
\* and every continuation that can run does run: the continuation of doInit's
\* await, the one of an initPlugin started by register, and the resumption
\* of an init() call whose promise has settled.
SpecInitFair ==
  /\ Init
  /\ [][NextInit]_vars
  /\ WF_vars(\E ok \in BOOLEAN : OnInitSettle(ok))
  /\ WF_vars(InitPluginStep)
  /\ WF_vars(\E ok \in BOOLEAN : RollbackDestroyPluginStep(ok))
  /\ WF_vars(DoInitStep)
  /\ WF_vars(\E l \in lates, ok \in BOOLEAN : LateInitSettle(l, ok))
  /\ WF_vars(\E l \in lates : LateInitResume(l))
  /\ WF_vars(\E l \in lates : LateInitCatchStep(l))
  /\ WF_vars(\E w \in waiters : InitSettle(w))

\* Registration and initialization, where every onInit started by register
\* settles and its continuations run.
NextLate ==
  \/ \E d \in PluginDefs : Register(d)
  \/ \E l \in lates, ok \in BOOLEAN : LateInitSettle(l, ok)
  \/ \E l \in lates : LateInitResume(l)
  \/ \E l \in lates : LateInitCatchStep(l)
  \/ InitCall
  \/ \E ok \in BOOLEAN : OnInitSettle(ok)
  \/ InitPluginStep
  \/ \E ok \in BOOLEAN : RollbackDestroyPluginStep(ok)
  \/ DoInitStep
  \/ \E w \in waiters : InitSettle(w)

SpecLate ==
  /\ Init
  /\ [][NextLate]_vars
  /\ WF_vars(\E l \in lates, ok \in BOOLEAN : LateInitSettle(l, ok))
  /\ WF_vars(\E l \in lates : LateInitResume(l))
  /\ WF_vars(\E l \in lates : LateInitCatchStep(l))

\* The plugin definitions whose install returns and subscribes the plugin's
\* handler.
InstallingDefs == {d \in PluginDefs : ~d.installThrows /\ d.sub = "install"}

\* Registration, initialization and unregistration of plugins whose install
\* returns.
NextUnregister ==
  \/ \E d \in InstallingDefs : Register(d)
  \/ \E l \in lates, ok \in BOOLEAN : LateInitSettle(l, ok)
  \/ \E l \in lates : LateInitResume(l)
  \/ \E l \in lates : LateInitCatchStep(l)
  \/ InitCall
  \/ \E ok \in BOOLEAN : OnInitSettle(ok)
  \/ InitPluginStep
  \/ \E ok \in BOOLEAN : RollbackDestroyPluginStep(ok)
  \/ DoInitStep
  \/ \E w \in waiters : InitSettle(w)
  \/ \E n \in Names : Unregister(n)
  \/ \E t \in tasks, ok \in BOOLEAN : DestroyPluginStep(t, ok)
  \/ \E t \in tasks : UnregisterStep(t)

SpecUnregister == Init /\ [][NextUnregister]_vars

\* Registration and initialization of plugins whose install returns, and the
\* kernel's destroy().
NextTeardown ==
  \/ \E d \in InstallingDefs : Register(d)
  \/ \E l \in lates, ok \in BOOLEAN : LateInitSettle(l, ok)
  \/ \E l \in lates : LateInitResume(l)
  \/ \E l \in lates : LateInitCatchStep(l)
  \/ InitCall
  \/ \E ok \in BOOLEAN : OnInitSettle(ok)
  \/ InitPluginStep
  \/ \E ok \in BOOLEAN : RollbackDestroyPluginStep(ok)
  \/ DoInitStep
  \/ \E w \in waiters : InitSettle(w)
  \/ Destroy
  \/ \E t \in tasks, ok \in BOOLEAN : DestroyPluginStep(t, ok)
  \/ \E t \in tasks : DestroyStep(t)

SpecTeardown == Init /\ [][NextTeardown]_vars

\* The dependencies the plugins of the chain declare.
ChainDeps(n) ==
  CASE n = "A" -> <<>>
    [] n = "B" -> <<"A">>
    [] n = "C" -> <<"B">>

\* The chain's plugin definitions, with an onInit hook each: as declared, and
\* with the dependencies array still to be filled in by the application.
ChainDefs ==
  {[name |-> n, deps |-> <<>>, installThrows |-> FALSE, hooks |-> TRUE,
    sub |-> "install"] : n \in ChainNames} \cup
  {[name |-> n, deps |-> ChainDeps(n), installThrows |-> FALSE, hooks |-> TRUE,
    sub |-> "install"] : n \in ChainNames}

\* The application registers the plugins of the chain in any order, completes
\* their dependencies declarations and initializes.
NextChain ==
  \/ \E d \in ChainDefs : ops < MaxChainOps /\ RegisterDo(d)
  \/ \E l \in lates, ok \in BOOLEAN : LateInitSettle(l, ok)
  \/ \E l \in lates : LateInitResume(l)
  \/ \E l \in lates : LateInitCatchStep(l)
  \/ ops < MaxChainOps /\ InitCallDo
  \/ \E ok \in BOOLEAN : OnInitSettle(ok)
  \/ InitPluginStep
  \/ \E ok \in BOOLEAN : RollbackDestroyPluginStep(ok)
  \/ DoInitStep
  \/ \E w \in waiters : InitSettle(w)
  \/ \E e \in Range(plugins) :
       ops < MaxChainOps /\ MutateDepsDo(e, ChainDeps(ent[e].name))

SpecChain == Init /\ [][NextChain]_vars

\* Three plugins without hooks, each declaring no dependency or the
\* dependency A.
RaceDefs ==
  {[name |-> n, deps |-> ds, installThrows |-> FALSE, hooks |-> FALSE,
    sub |-> "install"] : n \in ChainNames, ds \in {<<>>, <<"A">>}}

\* The application registers and unregisters three plugins, also while an
\* unregister() has not resumed from its await, and initializes.
NextRace ==
  \/ \E d \in RaceDefs : ops < MaxChainOps /\ RegisterDo(d)
  \/ ops < MaxChainOps /\ InitCallDo
  \/ DoInitStep
  \/ \E w \in waiters : InitSettle(w)
  \/ ops < MaxChainOps /\ UnregisterDo("A")
  \/ \E t \in tasks : UnregisterStep(t)

SpecRace == Init /\ [][NextRace]_vars

\* ------------------------------------------------ an EventBus used directly
\* The handler functions and scopes of an application that drives an
\* EventBus of its own, and the arguments it hands to removeAllListeners: an
\* event name, or none.
BusHandlers == {1, 2}

BusScopes == {"A", "B"}

BusArgs ==
  {[given |-> TRUE, event |-> e] : e \in EventNames} \cup
  {[given |-> FALSE, event |-> ""]}

\* What a bus call leaves alone: the kernel.
BusFrame ==
  UNCHANGED <<debounce, state, plugins, ent, initPromise, promises, pass, waiters, lates,
              tasks, torn, lastPass>>

\* bus.on(event, h)
BusOn(event, h) ==
  /\ ops < MaxBusOps
  /\ ops' = ops + 1
  /\ LET W == On(Cur, event, h)
     IN /\ Commit(W)
        /\ ev' = Ev("bus.on", "returned", "", event, h, W, FALSE, "")
  /\ BusFrame

\* bus.off(event, h)
BusOff(event, h) ==
  /\ ops < MaxBusOps
  /\ ops' = ops + 1
  /\ LET W == Off(Cur, event, h)
     IN /\ Commit(W)
        /\ ev' = Ev("bus.off", "returned", "", event, h, W, FALSE, "")
  /\ BusFrame

\* bus.onScoped(scope, event, h)
BusOnScoped(scope, event, h) ==
  /\ ops < MaxBusOps
  /\ ops' = ops + 1
  /\ LET W == OnScoped(Cur, scope, event, h)
     IN /\ Commit(W)
        /\ ev' = Ev("bus.onScoped", "returned", scope, event, h, W, FALSE, "")
  /\ BusFrame

\* bus.removeScope(scope)
BusRemoveScope(scope) ==
  /\ ops < MaxBusOps
  /\ ops' = ops + 1
  /\ LET W == RemoveScope(Cur, scope)
     IN /\ Commit(W)
        /\ ev' = Ev("bus.removeScope", "returned", scope, "", 0, W, FALSE, "")
  /\ BusFrame

\* bus.removeAllListeners(event) and bus.removeAllListeners()
BusRemoveAllListeners(arg) ==
  /\ ops < MaxBusOps
  /\ ops' = ops + 1
  /\ LET W == RemoveAllListenersOf(Cur, arg)
     IN /\ Commit(W)
        /\ ev' = Ev("bus.removeAllListeners",
                    IF arg.given THEN "event" ELSE "all", "", arg.event, 0, W,
                    FALSE, "")
  /\ BusFrame

\* bus.emit(event), where the handlers in `throwing` throw; ev.hooks keeps
\* the handlers whose error was caught and logged.
BusEmit(event, throwing) ==
  /\ ops < MaxBusOps
  /\ ops' = ops + 1
  /\ LET R == EmitCall(Cur, event, throwing)
     IN /\ Commit(R.w)
        /\ ev' = [Ev("bus.emit", R.res, "", event, 0, R.w, FALSE, "")
                    EXCEPT !.hooks = R.logged]
  /\ BusFrame

NextEventBus ==
  \/ \E event \in EventNames, h \in BusHandlers : BusOn(event, h)
  \/ \E event \in EventNames, h \in BusHandlers : BusOff(event, h)
  \/ \E scope \in BusScopes, event \in EventNames, h \in BusHandlers :
       BusOnScoped(scope, event, h)
  \/ \E scope \in BusScopes : BusRemoveScope(scope)
  \/ \E arg \in BusArgs : BusRemoveAllListeners(arg)
  \/ \E event \in EventNames, throwing \in SUBSET BusHandlers :
       BusEmit(event, throwing)

SpecEventBus == Init /\ [][NextEventBus]_vars

\* --------------------------------------------------- a debounced function
\* The arguments the application calls the debounced function with.
DebounceArgs == {1, 2}

\* What a call on the debounced function leaves alone: kernel and bus.
DebounceFrame ==
  UNCHANGED <<state, plugins, ent, initPromise, promises, pass, waiters, lates,
              tasks, listeners, scoped, torn, lastPass>>

\* debounced(arg); ev.e is the number of fn calls the step made.
DebouncedCall(arg) ==
  /\ ops < MaxDebounceOps
  /\ ops' = ops + 1
  /\ debounce' = Debounced(debounce, arg)
  /\ ev' = Ev("debounced", "returned", "", "", Len(debounce'.calls) - Len(debounce.calls),
              Cur, FALSE, "")
  /\ DebounceFrame

\* A timer armed by the debounced function fires.
TimerFires(t) ==
  /\ t \in debounce.timers
  /\ debounce' = TimerCallback(debounce, t)
  /\ ev' = Ev("timer", "returned", "", "", Len(debounce'.calls) - Len(debounce.calls),
              Cur, FALSE, "")
  /\ UNCHANGED ops
  /\ DebounceFrame

\* debounced.cancel()
CancelCall ==
  /\ ops < MaxDebounceOps
  /\ ops' = ops + 1
  /\ debounce' = Cancel(debounce)
  /\ ev' = Ev("cancel", "returned", "", "", 0, Cur, FALSE, "")
  /\ DebounceFrame

\* debounced.flush()
FlushCall ==
  /\ ops < MaxDebounceOps
  /\ ops' = ops + 1
  /\ debounce' = Flush(debounce)
  /\ ev' = Ev("flush", "returned", "", "", Len(debounce'.calls) - Len(debounce.calls),
              Cur, FALSE, "")
  /\ DebounceFrame

\* A debounced function made with any options.
InitDebounce ==
  /\ InitKernel
  /\ \E leading \in BOOLEAN, trailing \in BOOLEAN :
       debounce = Debounce(leading, trailing)

NextDebounce ==
  \/ \E arg \in DebounceArgs : DebouncedCall(arg)
  \/ \E t \in debounce.timers : TimerFires(t)
  \/ CancelCall
  \/ FlushCall

SpecDebounce == InitDebounce /\ [][NextDebounce]_vars

\* ===================================================================== claims

\* C1: however many init() calls are issued, one after another or while an
\* earlier one is in flight, the onInit hook of a registration is invoked at
\* most once; and when a doInit activation has ended successfully (no hook
\* of it failed), every plugin of the activation that has an onInit hook and
\* has not been destroyed meanwhile has had it invoked exactly once.
C1_OnInitAtMostOnce ==
  /\ \A e \in DOMAIN ent : ent[e].inits <= 1
  /\ (lastPass.id # 0 /\ lastPass.status = "fulfilled")
       => \A e \in Range(lastPass.sorted) :
            (ent[e].hooks /\ ent[e].state # "destroyed") => ent[e].inits = 1

\* Two init() calls are suspended on an activation that has ended
\* successfully after invoking a hook.
C1_Witness ==
  /\ Cardinality(waiters) >= 2
  /\ lastPass.id # 0 /\ lastPass.status = "fulfilled"
  /\ \E e \in Range(lastPass.sorted) : ent[e].inits = 1
  /\ \A w \in waiters : w.p = lastPass.id

\* C2: an init() call never resolves while the kernel state is still
\* `initializing`; whenever an init() call resolves, at the call or after the
\* in-flight activation it joined, the kernel state is `initialized`.
C2_ResolvedMeansInitialized ==
  (ev.op \in {"init", "initSettled"} /\ ev.res = "resolved")
    => state = "initialized"

\* Position of entry e in the sequence s (0 when absent).
IndexOf(s, e) ==
  IF e \in Range(s) THEN CHOOSE i \in DOMAIN s : s[i] = e ELSE 0

\* C3: when an onInit fails during init(), the rollback invokes onDestroy
\* exactly once for exactly the plugins that became active in that
\* activation, in reverse order of their initialization; the failing plugin
\* ends in `error`, the plugins after it are not initialized, the kernel is
\* `idle` again and the promise rejects with PluginInitializationError naming
\* the failing plugin.
C3_RollbackExactlyActivated ==
  (ev.op = "doInit" /\ ev.res = "rejected")
    => /\ lastPass.rolled =
            Reverse(SelectSeq(lastPass.activated, LAMBDA e : ent[e].hooks))
       /\ ent[lastPass.failed].state = "error"
       /\ \A i \in DOMAIN lastPass.sorted :
            i > IndexOf(lastPass.sorted, lastPass.failed)
              => /\ lastPass.sorted[i] \notin Range(lastPass.activated)
                 /\ ent[lastPass.sorted[i]].inits = 0
       /\ state = "idle"
       /\ promises[lastPass.id] =
            [status |-> "rejected", err |-> "PluginInitializationError",
             name |-> ent[lastPass.failed].name]

\* The order used by the doInit activation that the last step started.
OrderUsed == IF pass # NoPass THEN pass.sorted ELSE lastPass.sorted

\* The entries whose onInit the last step invoked.
InitsStarted == {h[2] : h \in {x \in Range(ev.hooks) : x[1] = "onInit"}}

\* C4: when init() starts an activation on an acyclic registry, the order it
\* uses holds every registered plugin exactly once and every plugin after
\* each of its declared dependencies that is registered; and when the
\* activation starts the onInit of a plugin, no plugin before it in the order
\* is still waiting for its onInit or running it.
C4_DependenciesFirst ==
  /\ (ev.op = "init" /\ ev.madeIn = "idle" /\ ~ev.cyc)
       => LET s == OrderUsed
          IN /\ Len(s) = Len(plugins)
             /\ Range(s) = Range(plugins)
             /\ \A i \in DOMAIN s :
                  \A d \in Range(ent[s[i]].deps) :
                    Has(Cur, d) => /\ IndexOf(s, Get(Cur, d)) < i
                                   /\ IndexOf(s, Get(Cur, d)) > 0
  /\ (ev.op \in {"init", "doInit"} /\ pass # NoPass)
       => \A e \in InitsStarted :
            \A j \in 1..(IndexOf(pass.sorted, e) - 1) :
              ent[pass.sorted[j]].state \notin {"registered", "initializing"}

\* An activation whose order differs from the registration order has started
\* the onInit of a dependent after its dependency became active.
C4_Witness ==
  /\ ev.op = "doInit" /\ pass # NoPass
  /\ pass.sorted # plugins
  /\ \E e \in InitsStarted :
       /\ ent[e].deps # <<>>
       /\ \A d \in Range(ent[e].deps) :
            Has(Cur, d) /\ ent[Get(Cur, d)].state = "active"

\* The onInit hooks that have been invoked and have not settled.
InitsInFlight ==
  {l.e : l \in {k \in lates : k.await = "hook"}}
    \cup (IF pass # NoPass /\ pass.phase = "init" /\ pass.await = "hook"
          THEN {pass.sorted[pass.idx]} ELSE {})

\* C5: at no time are two onInit hooks in progress together, whether started
\* by init() or by registration on an initialized kernel: at most one plugin
\* is `initializing`.
C5_OneOnInitAtATime ==
  /\ Cardinality(InitsInFlight) <= 1
  /\ Cardinality({e \in DOMAIN ent : ent[e].state = "initializing"}) <= 1

\* C6: an init() call made while the registered plugins' dependencies hold a
\* cycle rejects with CircularDependencyError and invokes no onInit hook.
\* Stated for the calls made on a kernel that is not yet initialized and not
\* destroyed, where init() has work to do.
C6_CycleRejectsInit ==
  /\ (/\ ev.op \in {"init", "initSettled"}
      /\ ev.cyc
      /\ ev.madeIn \in {"idle", "initializing"}
      /\ ev.res # "pending")
       => (ev.res = "rejected" /\ ev.err = "CircularDependencyError")
  /\ (ev.op = "init" /\ ev.cyc) => InitsStarted = {}

\* C7: a register() call that throws (duplicate name, missing dependency,
\* install throwing) leaves the registry (names, order, plugin states) and
\* the registered listeners exactly as they were and emits no
\* plugin:registered.
C7_FailedRegisterLeavesNoResidue ==
  [][(ev'.op = "register" /\ ev'.res = "threw")
       => /\ plugins' = plugins
          /\ ent' = ent
          /\ listeners' = listeners
          /\ ev'.emits = <<>>]_vars

\* C8: once a plugin has been torn down (unregister resolved, init rollback,
\* kernel destroy), no later emit invokes the handler registered through its
\* scoped bus.
C8_NoHandlerAfterTeardown ==
  ev.op = "emit" => \A h \in Range(ev.handled) : h \notin torn

\* C9: a destroy() call on a kernel that is not destroyed never rejects, and
\* when it resolves the kernel is `destroyed`, the registry is empty, the
\* onDestroy of every plugin that was registered has been invoked and no
\* listener remains on the bus.
C9_DestroyAlwaysCompletes ==
  [][(/\ ev'.op \in {"destroy", "destroyStep"}
      /\ ev'.madeIn # "destroyed"
      /\ ev'.res # "pending")
       => /\ ev'.res = "resolved"
          /\ state' = "destroyed"
          /\ plugins' = <<>>
          /\ \A e \in Range(plugins) : ent'[e].hooks => ent'[e].dests >= 1
          /\ \A event \in Events : listeners'[event] = <<>>]_vars

\* C10: unregister(name) rejects with PluginNotFoundError when the name is
\* not registered and with a dependency conflict when another registered
\* plugin declares the name as a dependency; a rejected call leaves the
\* registry, every plugin state and every listener unchanged and invokes no
\* onDestroy.
C10_UnregisterRejections ==
  [][\A n \in Names :
       (ev'.op = "unregister" /\ ev'.name = n)
         => /\ ~Has(Cur, n)
                 => (ev'.res = "rejected" /\ ev'.err = "PluginNotFoundError")
            /\ (/\ Has(Cur, n)
                /\ \E m \in RegisteredNames(Cur) \ {n} :
                     n \in Range(ent[Get(Cur, m)].deps))
                 => (ev'.res = "rejected" /\ ev'.err = "DependencyConflict")
            /\ ev'.res = "rejected"
                 => /\ plugins' = plugins
                    /\ ent' = ent
                    /\ listeners' = listeners
                    /\ scoped' = scoped
                    /\ tasks' = tasks
                    /\ ev'.hooks = <<>>]_vars

\* An unregister of a plugin that another registered plugin depends on has
\* just been rejected, the dependency being active with a live listener.
C10_Witness ==
  /\ ev.op = "unregister" /\ ev.err = "DependencyConflict"
  /\ ent[Get(Cur, ev.name)].state = "active"
  /\ listeners["x"] # <<>>

\* C11: an unregister(name) of a registered plugin that no other registered
\* plugin depends on leaves every other plugin's state and registry position
\* unchanged while it runs, and when it resolves the plugin's onDestroy has
\* been invoked exactly once, the plugin is out of the registry, nothing else
\* has left it, and plugin:unregistered has been emitted exactly once.
C11_UnregisterRemovesOnlyThePlugin ==
  [][/\ (ev'.op = "unregister" /\ ev'.res = "pending")
          => /\ plugins' = plugins
             /\ \A e \in DOMAIN ent \ {ev'.e} : ent'[e].state = ent[e].state
     /\ (ev'.op = "unregisterSettled" /\ ev'.res = "resolved")
          => /\ ent'[ev'.e].hooks => ent'[ev'.e].dests = 1
             /\ plugins' = Remove(plugins, ev'.e)
             /\ \A e \in DOMAIN ent \ {ev'.e} : ent'[e].state = ent[e].state
             /\ ev'.emits = <<<<"plugin:unregistered", ev'.name>>>>]_vars

\* C12: a register() that succeeds on an `initialized` kernel invokes, with
\* no init() call, the onInit of the new plugin exactly once and no other
\* hook; that onInit is never invoked again; and once the hook has succeeded
\* the plugin becomes `active` (a plugin without onInit is active at once).
C12_LateRegistrationInitializes ==
  /\ [][(/\ ev'.op = "register"
         /\ ev'.res = "returned"
         /\ ev'.madeIn = "initialized")
          => /\ ev'.hooks = IF ent'[ev'.e].hooks THEN <<<<"onInit", ev'.e>>>>
                            ELSE <<>>
             /\ ent'[ev'.e].hooks
                  => /\ ent'[ev'.e].inits = 1
                     /\ [e |-> ev'.e, await |-> "hook"] \in lates'
             /\ ~ent'[ev'.e].hooks => ent'[ev'.e].state = "active"]_vars
  /\ [][\A l \in lates : ent'[l.e].inits = 1]_vars
  /\ \A e \in 1..MaxOps :
       ([e |-> e, await |-> "fulfilled"] \in lates)
         ~> (ev.op = "lateInit" /\ ev.e = e /\ ent[e].state = "active")

\* The onInit of a plugin registered on an initialized kernel has succeeded
\* and the plugin is active, its hook invoked once.
C12_Witness ==
  /\ ev.op = "lateInit" /\ ev.res = "fulfilled"
  /\ state = "initialized"
  /\ ent[ev.e].state = "active" /\ ent[ev.e].inits = 1

\* C13: when the onInit of a plugin registered on an `initialized` kernel
\* fails, the register() call had returned normally; initPlugin tells the
\* plugin's onError and changes nothing; the callback register attached then
\* puts the plugin in state `error` and emits plugin:error exactly once
\* naming it, and changes neither the kernel state nor the registry nor the
\* state of any other plugin, and invokes no hook; nothing else emits
\* plugin:error.
C13_LateInitFailureIsContained ==
  [][/\ \A l \in lates' \ lates :
          l.await = "hook"
            => /\ ev'.op = "register" /\ ev'.res = "returned" /\ ev'.e = l.e
               /\ ev'.madeIn = "initialized"
     /\ (ev'.op = "lateInit" /\ ev'.res = "threw")
          => /\ ent' = ent /\ state' = state /\ plugins' = plugins
             /\ listeners' = listeners
             /\ ev'.emits = <<>>
             /\ ev'.hooks = <<<<"onError", ev'.e>>>>
     /\ (ev'.op = "lateCatch")
          => /\ [e |-> ev'.e, await |-> "threw"] \in lates
             /\ ent'[ev'.e].state = "error"
             /\ ev'.emits = <<<<"plugin:error", ent[ev'.e].name>>>>
             /\ state' = state
             /\ plugins' = plugins
             /\ \A e \in DOMAIN ent \ {ev'.e} : ent'[e] = ent[e]
             /\ ev'.hooks = <<>>
             /\ listeners' = listeners
     /\ \A i \in DOMAIN ev'.emits :
          ev'.emits[i][1] = "plugin:error" => ev'.op = "lateCatch"]_vars

\* A late onInit has failed on an initialized kernel that holds another,
\* active plugin.
C13_Witness ==
  /\ ev.op = "lateCatch"
  /\ state = "initialized"
  /\ ent[ev.e].state = "error"
  /\ \E e \in Range(plugins) : e # ev.e /\ ent[e].state = "active"

\* The changes of a plugin entry's state the lifecycle allows.
AllowedTransitions ==
  {<<"registered", "initializing">>, <<"initializing", "active">>,
   <<"registered", "error">>, <<"initializing", "error">>,
   <<"active", "destroyed">>, <<"registered", "destroyed">>,
   <<"error", "destroyed">>}

\* C14: every change of a plugin entry's state is one of the allowed
\* transitions (a plugin without onInit goes registered, initializing, active
\* within one step); an entry that is `destroyed` never changes state again.
C14_OnlyAllowedTransitions ==
  [][\A e \in DOMAIN ent :
       ent'[e].state # ent[e].state
         => \/ <<ent[e].state, ent'[e].state>> \in AllowedTransitions
            \/ /\ ~ent[e].hooks
               /\ ent[e].state = "registered"
               /\ ent'[e].state = "active"]_vars

\* C15: once the kernel state is `destroyed` it never changes again, and an
\* init() call made on a destroyed kernel rejects and invokes no plugin hook,
\* also when destroy() completed while a doInit activation was in flight.
C15_DestroyedKernelIsFinal ==
  [][/\ state = "destroyed" => state' = "destroyed"
     /\ (ev'.op = "init" /\ ev'.madeIn = "destroyed")
          => ev'.res = "rejected" /\ ev'.hooks = <<>>]_vars

\* C16: whenever an init() call resolves, every plugin in the registry at
\* that moment is `active`, whatever register, unregister and failed init()
\* calls came before and whatever was registered while the activation was in
\* flight.
C16_ResolvedInitMeansAllActive ==
  (ev.op \in {"init", "initSettled"} /\ ev.res = "resolved")
    => \A e \in Range(plugins) : ent[e].state = "active"

\* C17: a handler subscribed with kernel.on("kernel:destroyed", h) before
\* destroy() is invoked exactly once by the destroy() that destroys the
\* kernel, and a destroy() call on a destroyed kernel invokes no handler.
C17_KernelDestroyedDeliveredOnce ==
  [][/\ (/\ ev'.op \in {"destroy", "destroyStep"}
         /\ state # "destroyed" /\ state' = "destroyed"
         /\ UserHandler \in Range(listeners["kernel:destroyed"]))
          => Cardinality({i \in DOMAIN ev'.handled :
                            ev'.handled[i] = UserHandler}) = 1
     /\ (ev'.op = "destroy" /\ ev'.madeIn = "destroyed")
          => ev'.handled = <<>> /\ ev'.emits = <<>>]_vars

\* The destroy() calls suspended on an await.
DestroyTasks == {t \in tasks : t.kind = "destroy"}

\* C18: the order a destroy() call tears plugins down in places every plugin
\* before each plugin it declares as a dependency and is the exact reverse of
\* the order init() uses for the same registry; the call invokes the
\* onDestroy hooks one at a time in that order, each awaited before the next.
C18_TeardownReversesInitOrder ==
  /\ \A t \in DestroyTasks :
       /\ \A i, j \in DOMAIN t.seq :
            ent[t.seq[j]].name \in Range(ent[t.seq[i]].deps) => i < j
       /\ \A j \in 1..(t.idx - 1) :
            ent[t.seq[j]].hooks => ent[t.seq[j]].dests >= 1
  /\ ev.op \in {"destroy", "destroyStep"}
       => /\ Len(ev.hooks) <= 1
          /\ \A h \in Range(ev.hooks) :
               /\ h[1] = "onDestroy"
               /\ \E t \in DestroyTasks :
                    t.await = "hook" /\ t.seq[t.idx] = h[2]
  /\ (ev.op = "destroy" /\ ev.res = "pending")
       => \E t \in DestroyTasks :
            /\ t.id = ops
            /\ t.seq = Reverse(TopologicalSort(Cur).result)
            /\ (lastPass.id # 0 /\ Range(lastPass.sorted) = Range(plugins))
                 => t.seq = Reverse(lastPass.sorted)

\* A destroy() issued after an init() of the same two plugins is awaiting the
\* onDestroy of the dependency, the dependent's having been invoked first.
C18_Witness ==
  \E t \in DestroyTasks :
    /\ lastPass.id # 0 /\ t.seq = Reverse(lastPass.sorted)
    /\ t.idx = 2 /\ t.await = "hook"
    /\ ent[t.seq[2]].name \in Range(ent[t.seq[1]].deps)
    /\ ent[t.seq[1]].dests = 1 /\ ent[t.seq[2]].dests = 1

\* The names of the entries of a sequence of entry ids.
NamesOf(s) == [i \in DOMAIN s |-> ent[s[i]].name]

\* The registry holds A, B and C with the dependencies of the chain.
ChainComplete ==
  /\ RegisteredNames(Cur) = ChainNames
  /\ \A e \in Range(plugins) : ent[e].deps = ChainDeps(ent[e].name)

\* The order of an init() of the complete chain is A, B, C; the activation
\* starts the onInit of the entry at its current index only; and when it has
\* made all three active, it has done so in the order A, B, C.
ChainOrderIsABC ==
  /\ (ev.op = "init" /\ ev.madeIn = "idle" /\ ChainComplete)
       => NamesOf(OrderUsed) = <<"A", "B", "C">>
  /\ (ev.op \in {"init", "doInit"} /\ pass # NoPass)
       => \A e \in InitsStarted : e = pass.sorted[pass.idx]
  /\ (/\ ev.op = "doInit" /\ ev.res = "fulfilled"
      /\ NamesOf(lastPass.sorted) = <<"A", "B", "C">>
      /\ \A e \in Range(lastPass.sorted) : ent[e].state = "active")
       => NamesOf(lastPass.activated) = <<"A", "B", "C">>

\* C19 as stated: A, B (dependencies [A]) and C (dependencies [B]) can be
\* registered in each of the six orders, no register() call failing for a
\* dependency that is registered later, and init() then invokes onInit in the
\* order A, B, C.
C19_AnyRegistrationOrder ==
  /\ (ev.op = "register" /\ ev.name \in ChainNames /\ ev.madeIn = "idle")
       => ev.err # "PluginDependencyMissingError"
  /\ ChainOrderIsABC

\* C19 amended: register() accepts a plugin of the chain only once the
\* dependencies it declares are registered (with the declarations given, only
\* in the order A, B, C) and otherwise throws PluginDependencyMissingError
\* and stores nothing; in whatever insertion order the registry comes to
\* hold A, B (dependencies [A]) and C (dependencies [B]), init() invokes
\* onInit in the order A, B, C.
C19_ChainInitOrder ==
  /\ (ev.op = "register" /\ ev.res = "returned")
       => \A n \in Range(ent[ev.e].deps) :
            /\ Has(Cur, n)
            /\ IndexOf(plugins, Get(Cur, n)) < IndexOf(plugins, ev.e)
  /\ (ev.op = "register" /\ ev.err = "PluginDependencyMissingError")
       => /\ ev.e = 0
          /\ \E n \in Range(ChainDeps(ev.name)) : ~Has(Cur, n)
          /\ ~Has(Cur, ev.name)
  /\ ChainOrderIsABC

\* An activation has made A, B and C active in that order although the
\* registry holds them in another insertion order.
C19_Witness ==
  /\ ev.op = "doInit" /\ ev.res = "fulfilled"
  /\ NamesOf(lastPass.activated) = <<"A", "B", "C">>
  /\ NamesOf(plugins) # <<"A", "B", "C">>
  /\ ChainComplete

\* C20: in the order an init() uses for an acyclic registry, of any two
\* registered plugins neither of which depends on the other, directly or
\* transitively, the one registered earlier comes first.
C20_TieBreakIsRegistrationOrder ==
  (ev.op = "init" /\ ev.madeIn = "idle" /\ ~ev.cyc)
    => \A i, j \in DOMAIN plugins :
         (/\ i < j
          /\ <<ent[plugins[i]].name, ent[plugins[j]].name>> \notin Reach(Cur)
          /\ <<ent[plugins[j]].name, ent[plugins[i]].name>> \notin Reach(Cur))
           => IndexOf(OrderUsed, plugins[i]) < IndexOf(OrderUsed, plugins[j])

\* C21: EventBus.emit never lets an error of a handler reach its caller, and
\* calls every handler registered for the event exactly once, in the order
\* of registration, whichever of them throw (each error is logged); with no
\* handler registered nothing is called.
C21_EmitCallsEveryHandler ==
  [][ev'.op = "bus.emit" =>
       /\ ev'.res = "returned"
       /\ ev'.handled = listeners[ev'.name]
       /\ \A h \in BusHandlers :
            Cardinality({i \in DOMAIN ev'.handled : ev'.handled[i] = h}) =
              (IF h \in Range(listeners[ev'.name]) THEN 1 ELSE 0)
       /\ listeners' = listeners]_vars

\* C21 witness: an emission to two handlers of which the first threw and the
\* second was still called.
C21_Witness ==
  /\ ev.op = "bus.emit"
  /\ Len(ev.handled) = 2
  /\ ev.hooks = <<ev.handled[1]>>
  /\ ev.res = "returned"

\* C22: EventBus.removeScope(s) changes nothing but the registrations of
\* scope s: a handler registered for an event under another scope stays
\* registered for it, the handlers not registered under s keep their places,
\* hasScope(s) becomes false, the other scopes keep what they track, and for
\* an unknown scope nothing changes.
C22_RemoveScopeFrame ==
  [][ev'.op = "bus.removeScope" =>
       LET s == ev'.err
       IN /\ \A e \in EventNames : \A h \in Range(listeners[e]) :
               (\E s2 \in BusScopes \ {s} : <<e, h>> \in scoped[s2])
                 => h \in Range(listeners'[e])
          /\ \A e \in EventNames :
               SelectSeq(listeners'[e], LAMBDA h : <<e, h>> \notin scoped[s]) =
               SelectSeq(listeners[e], LAMBDA h : <<e, h>> \notin scoped[s])
          /\ scoped'[s] = {}
          /\ \A s2 \in BusScopes \ {s} : scoped'[s2] = scoped[s2]
          /\ scoped[s] = {} => listeners' = listeners]_vars

\* C23: EventBus.removeAllListeners(e), called with an event name e, removes
\* the handlers of e and leaves the handlers of every other event as they
\* were, whatever the name e; called with no argument it removes the
\* handlers of every event.
C23_RemoveAllListenersOfOneEvent ==
  [][ev'.op = "bus.removeAllListeners" =>
       IF ev'.res = "event"
       THEN /\ listeners'[ev'.name] = <<>>
            /\ \A e \in EventNames \ {ev'.name} : listeners'[e] = listeners[e]
       ELSE \A e \in EventNames : listeners'[e] = <<>>]_vars

\* A doInit activation ended in this step, fulfilled.
PassFulfilledNow == lastPass'.id # lastPass.id /\ lastPass'.status = "fulfilled"

\* C24: in every init() pass, a step that invokes a plugin's onInit has
\* emitted plugin:initializing for it and not yet plugin:initialized; a
\* plugin:initialized is emitted only for a plugin whose plugin:initializing
\* came earlier in the same step (no onInit hook) or, by initPlugin resuming,
\* whose awaited onInit has fulfilled; kernel:initialized is emitted once,
\* last, by the step that ends a pass successfully and by no other step of
\* init(), and by then the pass has emitted plugin:initialized for every
\* plugin of the pass.
C24_InitEventOrder ==
  [][ev'.op \in {"init", "onInit", "initPlugin", "rollbackDestroyPlugin",
                  "doInit"} =>
       /\ \A i \in DOMAIN ev'.hooks :
            ev'.hooks[i][1] = "onInit" =>
              /\ <<"plugin:initializing", ent[ev'.hooks[i][2]].name>>
                   \in Range(ev'.emits)
              /\ <<"plugin:initialized", ent[ev'.hooks[i][2]].name>>
                   \notin Range(ev'.emits)
       /\ \A i \in DOMAIN ev'.emits :
            ev'.emits[i][1] = "plugin:initialized" =>
              \/ \E j \in 1..(i - 1) :
                   ev'.emits[j] = <<"plugin:initializing", ev'.emits[i][2]>>
              \/ /\ i = 1
                 /\ ev'.op = "initPlugin"
                 /\ pass.phase = "init"
                 /\ pass.await = "fulfilled"
                 /\ ent[pass.sorted[pass.idx]].name = ev'.emits[i][2]
                 /\ ent'[pass.sorted[pass.idx]].state = "active"
       /\ \A i \in DOMAIN ev'.emits :
            ev'.emits[i][1] = "kernel:initialized" =>
              PassFulfilledNow /\ i = Len(ev'.emits)
       /\ PassFulfilledNow =>
            /\ Len(ev'.emits) > 0
            /\ ev'.emits[Len(ev'.emits)][1] = "kernel:initialized"
            /\ Range(lastPass'.sorted) \subseteq Range(lastPass'.activated)
       /\ (lastPass'.id # lastPass.id /\ lastPass'.status = "rejected") =>
            \A i \in DOMAIN ev'.emits : ev'.emits[i][1] # "kernel:initialized"
     ]_vars

\* C25: with plugin definitions never rewritten, in every reachable state
\* every dependency a registered plugin declares is itself registered, and
\* the declared dependencies of the registry hold no cycle.
C25_DependenciesRegistered ==
  /\ \A e \in Range(plugins) : \A i \in DOMAIN ent[e].deps :
       Has(Cur, ent[e].deps[i])
  /\ ~Cyclic(Cur)

\* C26: whenever a step invokes a plugin's onInit, from init() or from a
\* registration on an initialized kernel, every dependency the plugin
\* declares is registered and `active` at that moment.
C26_DependenciesActiveAtOnInit ==
  [][\A i \in DOMAIN ev'.hooks :
       ev'.hooks[i][1] = "onInit" =>
         \A j \in DOMAIN ent'[ev'.hooks[i][2]].deps :
           \E d \in Range(plugins') :
             /\ ent'[d].name = ent'[ev'.hooks[i][2]].deps[j]
             /\ ent'[d].state = "active"]_vars

\* C27: the onDestroy hook of a registration is invoked at most once,
\* whatever unregister and destroy calls and init rollbacks overlap.
C27_OnDestroyAtMostOnce ==
  \A e \in DOMAIN ent : ent[e].dests <= 1

\* C28: unregister is all-or-nothing. When a call rejects after its await
\* (onDestroy threw or rejected), the entry is still registered, not
\* destroyed, and the handler it subscribed in install through its scoped
\* bus is still registered; when a call resolves, the name is no longer
\* registered and the entry's handler is registered for no event.
C28_UnregisterAllOrNothing ==
  [][ev'.op = "unregisterSettled" =>
       IF ev'.res = "rejected"
       THEN /\ ev'.e \in Range(plugins')
            /\ ent'[ev'.e].state # "destroyed"
            /\ ent[ev'.e].sub = "install" => ev'.e \in Range(listeners'["x"])
       ELSE /\ \A d \in Range(plugins') : ent'[d].name # ev'.name
            /\ \A event \in EventNames : ev'.e \notin Range(listeners'[event])
     ]_vars

\* C29: when every hook settles, every init() call that is waiting settles
\* and the kernel does not stay `initializing`: it reaches `initialized`,
\* `idle` or `destroyed`, whatever error ended the pass.
C29_InitEventuallySettles ==
  /\ (state = "initializing") ~> (state \in {"initialized", "idle", "destroyed"})
  /\ \A id \in 1..MaxOps :
       (\E w \in waiters : w.id = id) ~> ~(\E w \in waiters : w.id = id)

\* C30: pending() of a debounced function is false before the first call,
\* true after a call, and false again after the timer has fired, after
\* cancel() and after a flush() that ran the pending invocation; a call
\* made after any of these acts like a first call (with the leading option
\* it invokes fn at once).
C30_PendingWhileScheduled ==
  [][/\ ev.op = "new" => ~IsPending(debounce)
     /\ ev'.op = "debounced" => IsPending(debounce')
     /\ ev'.op \in {"timer", "cancel"} => ~IsPending(debounce')
     /\ (ev'.op = "flush" /\ ev'.e = 1) => ~IsPending(debounce')
     /\ (/\ ev'.op = "debounced"
         /\ \/ ev.op \in {"new", "timer", "cancel"}
            \/ ev.op = "flush" /\ ev.e = 1)
          => ev'.e = (IF debounce.leading THEN 1 ELSE 0)
    ]_vars
====
